---- MODULE Spec2Model ----
(***************************************************************************)
(* The COVID-19 dashboard script src/app.py as a state machine.            *)
(*                                                                         *)
(* The hosting runtime runs the script from top to bottom on every user    *)
(* interaction.  One action models one section of the script; an exception *)
(* raised by a section ends the run (the later sections are not run).      *)
(* Only the memoized table of load_data survives from one run to the next. *)
(*                                                                         *)
(* Numbers are exact (integers and fractions kept as numerator and         *)
(* denominator); floating-point rounding is not modelled.  The calls into  *)
(* the charting library and the page layout are not modelled.              *)
(***************************************************************************)
EXTENDS Integers, Sequences, FiniteSets, TLC

VARIABLES
    file,            \* the rows of data/covid_clean.csv.gz (never changes)
    cache,           \* the memo of load_data: <<>> or <<table>>
    reads,           \* how many times the file has been read
    pc,              \* the section of the script that runs next
    df,              \* the script's table
    negara_selected, \* the countries chosen in the sidebar
    date_range,      \* what the date input returned: <<a>> or <<a, b>>
    df_filtered,     \* the filtered subset
    latest_date,     \* the most recent date of the filtered subset (NaT if none)
    kpi,             \* the KPI row
    df_map,          \* the rows of the map panel
    trend,           \* the headline peak and the trend classification
    df_peak,         \* the per-country peak table
    pie,             \* the global contribution breakdown
    top10,           \* the global ranking
    dist,            \* the selected-country distribution table
    vol,             \* the volatility table
    panel,           \* what each panel shows
    raised,          \* the section that raised an exception, "" if none
    zero_div         \* the divisions evaluated with a zero denominator

vars == <<file, cache, reads, pc, df, negara_selected, date_range, df_filtered,
          latest_date, kpi, df_map, trend, df_peak, pie, top10, dist, vol,
          panel, raised, zero_div>>

(***************************************************************************)
(* Values                                                                  *)
(***************************************************************************)
\* a missing number (what errors="coerce" and an empty aggregate produce)
NaN == -1000
\* a cell of the file that does not parse as a number
Bad == -2000
\* the maximum of no dates
NaT == 0

\* the number of entries kept individually in the rankings
top_n == 10

(***************************************************************************)
(* Bounds of the model                                                     *)
(***************************************************************************)
\* dates of the small tables are 1..MaxDate
MaxDate == 2
\* daily counts of the small tables are -1..MaxHarian (or unparseable)
MaxHarian == 1
\* cumulative counts of the small tables are 0..MaxKum (or unparseable)
MaxKum == 1
\* the long series has one record on each of the dates 1..TrendDays
TrendDays == 15
\* the level the daily counts of the long series vary around
TrendBase == 5
\* the file is read at most this many times before the model stops counting
MaxReads == 3
\* days per calendar quarter, in the model's day numbers
QuarterDays == 2

(***************************************************************************)
(* Sequences and aggregates, as the dataframe library computes them        *)
(***************************************************************************)
Range(s) == {s[i] : i \in DOMAIN s}

Min2(a, b) == IF a <= b THEN a ELSE b
Max2(a, b) == IF a >= b THEN a ELSE b

\* s.head(n)
Head_n(s, n) == SubSeq(s, 1, Min2(n, Len(s)))
\* s.tail(n)
Tail_n(s, n) == SubSeq(s, Max2(1, Len(s) - n + 1), Len(s))

\* the values of a column that are not missing
NotNa(xs) == SelectSeq(xs, LAMBDA x : x # NaN)

RECURSIVE SumSeq(_)
SumSeq(xs) == IF xs = <<>> THEN 0 ELSE Head(xs) + SumSeq(Tail(xs))

\* Series.sum(): missing values are skipped, the sum of nothing is 0
SumSkipNa(xs) == SumSeq(NotNa(xs))

\* Series.count()
CountNotNa(xs) == Len(NotNa(xs))

\* Series.max(): missing values are skipped, NaN when nothing is left
MaxSkipNa(xs) ==
    LET S == Range(NotNa(xs))
    IN  IF S = {} THEN NaN ELSE CHOOSE m \in S : \A x \in S : x <= m

\* Series.min()
MinSkipNa(xs) ==
    LET S == Range(NotNa(xs))
    IN  IF S = {} THEN NaN ELSE CHOOSE m \in S : \A x \in S : m <= x

\* Series.idxmax(): the first position of the maximum, 0 when all are missing
\* (the row labels of a subset are unique, so a label stands for a position)
IdxMax(xs) ==
    IF MaxSkipNa(xs) = NaN THEN 0
    ELSE CHOOSE i \in DOMAIN xs :
            /\ xs[i] = MaxSkipNa(xs)
            /\ \A j \in DOMAIN xs : xs[j] = MaxSkipNa(xs) => i <= j

\* Series.idxmin()
IdxMin(xs) ==
    IF MinSkipNa(xs) = NaN THEN 0
    ELSE CHOOSE i \in DOMAIN xs :
            /\ xs[i] = MinSkipNa(xs)
            /\ \A j \in DOMAIN xs : xs[j] = MinSkipNa(xs) => i <= j

\* int(x) of the fraction num/den, den > 0: truncation toward zero
IntOf(num, den) == IF num >= 0 THEN num \div den ELSE -((-num) \div den)

\* the elements of a set of integers in ascending order
RECURSIVE SortedSeq(_)
SortedSeq(S) ==
    IF S = {} THEN <<>>
    ELSE LET m == CHOOSE x \in S : \A y \in S : x <= y
         IN  <<m>> \o SortedSeq(S \ {m})

\* columns of a table
Col_negara(t) == [i \in DOMAIN t |-> t[i].negara]
Col_tanggal(t) == [i \in DOMAIN t |-> t[i].tanggal]
Col_harian(t) == [i \in DOMAIN t |-> t[i].kasus_harian]
Col_kumulatif(t) == [i \in DOMAIN t |-> t[i].kasus_kumulatif]

\* t[t["negara"] == negara]
RowsOf(t, negara) == SelectSeq(t, LAMBDA r : r.negara = negara)
\* t[t["tanggal"] == d]
RowsOn(t, d) == SelectSeq(t, LAMBDA r : r.tanggal = d)

\* the group keys of groupby("negara"), in ascending order
Groups(t) == SortedSeq(Range(Col_negara(t)))

\* whether key a goes before key b in sort_values(ascending=False): the
\* larger first, the missing keys last
Before(a, b) == b = NaN \/ (a # NaN /\ a > b)

\* DataFrame.sort_values("kasus_kumulatif", ascending=False); rows with equal
\* keys keep their order
RECURSIVE InsertByKumulatif(_, _)
InsertByKumulatif(r, s) ==
    IF s = <<>> THEN <<r>>
    ELSE IF Before(r.kasus_kumulatif, Head(s).kasus_kumulatif)
         THEN <<r>> \o s
         ELSE <<Head(s)>> \o InsertByKumulatif(r, Tail(s))

RECURSIVE SortByKumulatif(_)
SortByKumulatif(s) ==
    IF s = <<>> THEN <<>>
    ELSE InsertByKumulatif(s[Len(s)], SortByKumulatif(SubSeq(s, 1, Len(s) - 1)))

\* DataFrame.sort_values("kasus_harian", ascending=False)
RECURSIVE InsertByHarian(_, _)
InsertByHarian(r, s) ==
    IF s = <<>> THEN <<r>>
    ELSE IF Before(r.kasus_harian, Head(s).kasus_harian)
         THEN <<r>> \o s
         ELSE <<Head(s)>> \o InsertByHarian(r, Tail(s))

RECURSIVE SortByHarian(_)
SortByHarian(s) ==
    IF s = <<>> THEN <<>>
    ELSE InsertByHarian(s[Len(s)], SortByHarian(SubSeq(s, 1, Len(s) - 1)))

(***************************************************************************)
(* The files the model reads                                               *)
(***************************************************************************)
Row(n, d, l, h, k) ==
    [negara |-> n, tanggal |-> d, loc |-> l, kasus_harian |-> h, kasus_kumulatif |-> k]

\* the countries whose records vary, and the coordinates of a record
CoreCountries == {1, 2}
Locs == {1, 2}

\* rows whose daily count varies
DailyRows ==
    {Row(n, d, n, h, d) : n \in CoreCountries, d \in 1..MaxDate,
                          h \in {Bad} \cup (-1..MaxHarian)}
\* rows whose cumulative count and coordinates vary
CumRows ==
    {Row(n, d, l, 1, k) : n \in CoreCountries, d \in 1..MaxDate, l \in Locs,
                          k \in {Bad} \cup (0..MaxKum)}

\* the tables of one row or two rows of S
OneOrTwo(S) == {<<r>> : r \in S} \cup {<<r, q>> : r \in S, q \in S}

\* the further countries of a table: one record each, on the last date
Filler(i) == Row(Cardinality(CoreCountries) + i, MaxDate, 1, 1, i + MaxKum)
Fillers(f) == [i \in 1..f |-> Filler(i)]
\* as many of them as make the table one country longer than the ranking
ManyFillers == top_n - Cardinality(CoreCountries) + 1

SmallFiles ==
    {core \o Fillers(ManyFillers) : core \in OneOrTwo(DailyRows)}
      \cup {core \o Fillers(f) : core \in OneOrTwo(CumRows), f \in {0, ManyFillers}}

\* one country with a record a day: p on the first days, q on the last seven
TrendLevels == {Bad, -1, 0} \cup ((TrendBase - 2)..(TrendBase + 2)) \cup {2 * TrendBase}
TrendFile(p, q) ==
    [d \in 1..TrendDays |-> Row(1, d, 1, IF d <= TrendDays - 7 THEN p ELSE q, d)]
TrendFiles == {TrendFile(p, q) : p \in {Bad, -1, 0, TrendBase}, q \in TrendLevels}

Files == SmallFiles \cup TrendFiles

(***************************************************************************)
(* The script                                                              *)
(***************************************************************************)
PanelNames == {"kpi", "map", "trend", "peak", "global", "top10", "dist_bar", "dist_pie", "vol"}

NoPanels == [p \in PanelNames |-> "none"]

Init ==
    /\ file \in Files
    /\ cache = <<>>
    /\ reads = 0
    /\ pc = "idle"
    /\ df = <<>> /\ negara_selected = {} /\ date_range = <<>> /\ df_filtered = <<>>
    /\ latest_date = NaT /\ kpi = <<>> /\ df_map = <<>> /\ trend = <<>>
    /\ df_peak = <<>> /\ pie = <<>> /\ top10 = <<>> /\ dist = <<>> /\ vol = <<>>
    /\ panel = NoPanels /\ raised = "" /\ zero_div = {}

\* a user interaction (or the first page view) starts a run of the script:
\* the script's variables of the run before are gone
Interact ==
    /\ pc \in {"idle", "done", "aborted"}
    /\ pc' = "load"
    /\ df' = <<>> /\ negara_selected' = {} /\ date_range' = <<>> /\ df_filtered' = <<>>
    /\ latest_date' = NaT /\ kpi' = <<>> /\ df_map' = <<>> /\ trend' = <<>>
    /\ df_peak' = <<>> /\ pie' = <<>> /\ top10' = <<>> /\ dist' = <<>> /\ vol' = <<>>
    /\ panel' = NoPanels /\ raised' = "" /\ zero_div' = {}
    /\ UNCHANGED <<file, cache, reads>>

\* an exception ends the run
Abort(section) == pc' = "aborted" /\ raised' = section
\* the run goes on with the next section
Go(section) == pc' = section /\ raised' = raised
\* what a panel shows
Show(p, what) == panel' = [panel EXCEPT ![p] = what]

\* pd.to_numeric(errors="coerce")
ToNumeric(x) == IF x = Bad THEN NaN ELSE x

\* the body of load_data: read the file and coerce the two count columns
ReadCsv ==
    [i \in DOMAIN file |->
        [file[i] EXCEPT !.kasus_harian = ToNumeric(@), !.kasus_kumulatif = ToNumeric(@)]]

\* load_data without its memo: every call reads the file
LoadDataNoMemo ==
    /\ pc = "load"
    /\ reads' = Min2(reads + 1, MaxReads)
    /\ cache' = <<ReadCsv>>
    /\ df' = cache'[1]
    /\ pc' = "sidebar"
    /\ UNCHANGED <<file, negara_selected, date_range, df_filtered, latest_date, kpi,
                   df_map, trend, df_peak, pie, top10, dist, vol, panel, raised, zero_div>>

\* df = load_data(), memoized by st.cache_data: the first call reads the
\* file, every later call returns the table of the memo
LoadData ==
    /\ pc = "load"
    /\ IF cache = <<>>
       THEN /\ reads' = Min2(reads + 1, MaxReads)
            /\ cache' = <<ReadCsv>>
       ELSE UNCHANGED <<cache, reads>>
    /\ df' = cache'[1]
    /\ pc' = "sidebar"
    /\ UNCHANGED <<file, negara_selected, date_range, df_filtered, latest_date, kpi,
                   df_map, trend, df_peak, pie, top10, dist, vol, panel, raised, zero_div>>

\* the sidebar: the country multiselect and the date input, bounded by the
\* table's dates; a date input in range mode returns one date while the
\* user has picked only the start
negara_list == Range(Col_negara(df))
min_date == MinSkipNa(Col_tanggal(df))
max_date == MaxSkipNa(Col_tanggal(df))

Sidebar ==
    /\ pc = "sidebar"
    /\ \E sel \in SUBSET (negara_list \cap CoreCountries) :
       \E a \in min_date..max_date :
       \E b \in a..max_date :
       \E dr \in {<<a>>, <<a, b>>} :
          /\ negara_selected' = sel
          /\ date_range' = dr
    /\ pc' = "filter"
    /\ UNCHANGED <<file, cache, reads, df, df_filtered, latest_date, kpi,
                   df_map, trend, df_peak, pie, top10, dist, vol, panel, raised, zero_div>>

\* the filter with the end of the range left out
FilterRowsEndExclusive(t, sel, a, b) ==
    SelectSeq(t, LAMBDA r : r.negara \in sel /\ r.tanggal >= a /\ r.tanggal < b)

\* df[(negara in negara_selected) & (tanggal >= a) & (tanggal <= b)]
FilterRows(t, sel, a, b) ==
    SelectSeq(t, LAMBDA r : r.negara \in sel /\ r.tanggal >= a /\ r.tanggal <= b)

\* df_filtered; date_range[1] of a one-date input raises IndexError
FilterData ==
    /\ pc = "filter"
    /\ IF Len(date_range) < 2
       THEN Abort("filter") /\ UNCHANGED df_filtered
       ELSE /\ df_filtered' = FilterRows(df, negara_selected, date_range[1], date_range[2])
            /\ Go("kpi")
    /\ UNCHANGED <<file, cache, reads, df, negara_selected, date_range, latest_date, kpi,
                   df_map, trend, df_peak, pie, top10, dist, vol, panel, zero_div>>

\* the KPI row; int() of a missing maximum or mean raises ValueError
KpiRow(t) ==
    [total_cases |-> MaxSkipNa(Col_kumulatif(t)),
     avg_daily |-> IntOf(SumSkipNa(Col_harian(t)), CountNotNa(Col_harian(t))),
     total_countries |-> Cardinality(Range(Col_negara(t)))]

KpiSection ==
    /\ pc = "kpi"
    /\ latest_date' = (IF df_filtered = <<>> THEN NaT
                       ELSE MaxSkipNa(Col_tanggal(df_filtered)))
    /\ IF \/ MaxSkipNa(Col_kumulatif(df_filtered)) = NaN
          \/ CountNotNa(Col_harian(df_filtered)) = 0
       THEN Abort("kpi") /\ UNCHANGED <<kpi, panel>>
       ELSE /\ kpi' = <<KpiRow(df_filtered)>>
            /\ Show("kpi", "shown")
            /\ Go("map")
    /\ UNCHANGED <<file, cache, reads, df, negara_selected, date_range, df_filtered,
                   df_map, trend, df_peak, pie, top10, dist, vol, zero_div>>

RECURSIVE Flatten(_)
Flatten(ss) == IF ss = <<>> THEN <<>> ELSE Head(ss) \o Flatten(Tail(ss))

\* t.groupby(["negara", "latitude", "longitude"], as_index=False)
\*  .agg({"kasus_kumulatif": "max"}): one row per country and coordinates
MaxByNegaraLoc(t) ==
    LET g == Groups(t)
        locs(n) == SortedSeq(Range([i \in DOMAIN RowsOf(t, n) |-> RowsOf(t, n)[i].loc]))
        row(n, l) ==
            [negara |-> n, loc |-> l,
             kasus_kumulatif |->
                MaxSkipNa(Col_kumulatif(SelectSeq(RowsOf(t, n), LAMBDA r : r.loc = l)))]
    IN  Flatten([i \in DOMAIN g |-> [j \in DOMAIN locs(g[i]) |-> row(g[i], locs(g[i])[j])]])

\* the map panel: the snapshot of the filtered subset on its latest date
MapPanel ==
    /\ pc = "map"
    /\ df_map' = MaxByNegaraLoc(RowsOn(df_filtered, latest_date))
    /\ Show("map", "shown")
    /\ Go("trend")
    /\ UNCHANGED <<file, cache, reads, df, negara_selected, date_range, df_filtered,
                   latest_date, kpi, trend, df_peak, pie, top10, dist, vol, zero_div>>

\* Series.mean() as a fraction: the missing values are skipped, den = 0 is NaN
Mean(xs) == [num |-> SumSkipNa(xs), den |-> CountNotNa(xs)]
\* mean > 0
MeanPositive(m) == m.den > 0 /\ m.num > 0

\* ((latest_week - prev_week) / prev_week) * 100 for prev_week > 0, as a
\* fraction with a positive denominator; den = 0 is NaN (latest_week missing)
ChangePct(latest_week, prev_week) ==
    IF latest_week.den = 0 THEN [num |-> 0, den |-> 0]
    ELSE [num |-> (latest_week.num * prev_week.den - prev_week.num * latest_week.den) * 100,
          den |-> prev_week.num * latest_week.den]

\* the label with the thresholds included
TrendLabelInclusive(change_pct) ==
    IF change_pct.den # 0 /\ change_pct.num >= 20 * change_pct.den THEN "meningkat"
    ELSE IF change_pct.den # 0 /\ change_pct.num <= -20 * change_pct.den THEN "menurun"
    ELSE "stabil"

\* the label of a change
TrendLabel(change_pct) ==
    IF change_pct.den # 0 /\ change_pct.num > 20 * change_pct.den THEN "meningkat"
    ELSE IF change_pct.den # 0 /\ change_pct.num < -20 * change_pct.den THEN "menurun"
    ELSE "stabil"

\* the two weeks the trend of a country compares
latest_week_of(country_data) == Mean(Col_harian(Tail_n(country_data, 7)))
prev_week_of(country_data) == Mean(Col_harian(Head_n(Tail_n(country_data, 14), 7)))

\* the loop with more than 7 records asked for
ClassifiedAboveSeven(country_data) ==
    Len(country_data) > 7 /\ MeanPositive(prev_week_of(country_data))

\* whether the loop appends an entry for the country
Classified(country_data) ==
    Len(country_data) >= 7 /\ MeanPositive(prev_week_of(country_data))

\* trend_analysis: the loop over the selected countries
TrendAnalysis(t, sel) ==
    LET order == SortedSeq(sel)
        kept == SelectSeq(order, LAMBDA negara : Classified(RowsOf(t, negara)))
        entry(negara) ==
            LET country_data == RowsOf(t, negara)
                change_pct == ChangePct(latest_week_of(country_data), prev_week_of(country_data))
            IN  [negara |-> negara, trend |-> TrendLabel(change_pct), change_pct |-> change_pct]
    IN  [i \in DOMAIN kept |-> entry(kept[i])]

\* peak_global: the row of the highest daily count
PeakGlobal(t) ==
    LET r == t[IdxMax(Col_harian(t))]
    IN  [negara_peak |-> r.negara, tanggal_peak |-> r.tanggal, nilai_peak |-> r.kasus_harian]

\* the trend insight: the headline peak and the trend of each selected country
TrendInsight ==
    /\ pc = "trend"
    /\ IF df_filtered # <<>>
       THEN IF IdxMax(Col_harian(df_filtered)) = 0
            THEN Abort("trend") /\ UNCHANGED <<trend, panel>>
            ELSE /\ trend' = <<[peak |-> PeakGlobal(df_filtered),
                                trend_analysis |-> TrendAnalysis(df_filtered, negara_selected)]>>
                 /\ Show("trend", "shown")
                 /\ Go("peak")
       ELSE /\ Show("trend", "placeholder")
            /\ Go("peak")
            /\ UNCHANGED trend
    /\ UNCHANGED <<file, cache, reads, df, negara_selected, date_range, df_filtered,
                   latest_date, kpi, df_map, df_peak, pie, top10, dist, vol, zero_div>>

\* Series.dt.to_period("Q") on the model's day numbers
Quarter(d) == (d - 1) \div QuarterDays + 1

\* the rows of the highest daily count of each country, highest first
PeakRows(t) ==
    LET g == Groups(t)
        row(n) == RowsOf(t, n)[IdxMax(Col_harian(RowsOf(t, n)))]
    IN  SortByHarian([i \in DOMAIN g |->
            [negara |-> row(g[i]).negara, tanggal |-> row(g[i]).tanggal,
             kasus_harian |-> row(g[i]).kasus_harian, quarter |-> 0]])

\* df_peak["quarter"] = ...: a column added to df_peak, a table of its own
WithQuarter(rows) == [i \in DOMAIN rows |-> [rows[i] EXCEPT !.quarter = Quarter(rows[i].tanggal)]]

\* the peak table; idxmax of a country without any daily count gives no label
\* and .loc raises
PeakAnalysis ==
    /\ pc = "peak"
    /\ IF df_filtered # <<>>
       THEN IF \E n \in Range(Col_negara(df_filtered)) :
                    IdxMax(Col_harian(RowsOf(df_filtered, n))) = 0
            THEN Abort("peak") /\ UNCHANGED <<df_peak, panel>>
            ELSE /\ df_peak' = (IF Len(PeakRows(df_filtered)) > 1
                                THEN WithQuarter(PeakRows(df_filtered))
                                ELSE PeakRows(df_filtered))
                 /\ Show("peak", "shown")
                 /\ Go("global")
       ELSE /\ Show("peak", "placeholder")
            /\ Go("global")
            /\ UNCHANGED df_peak
    /\ UNCHANGED <<file, cache, reads, df, negara_selected, date_range, df_filtered,
                   latest_date, kpi, df_map, trend, pie, top10, dist, vol, zero_div>>

\* t.groupby("negara", as_index=False).agg({"kasus_kumulatif": "max"}):
\* one row per country, the largest cumulative count of its rows
MaxByNegara(t) ==
    LET g == Groups(t)
    IN  [i \in DOMAIN g |->
            [negara |-> g[i], kasus_kumulatif |-> MaxSkipNa(Col_kumulatif(RowsOf(t, g[i])))]]

\* the snapshot of a table: the rows of its date d, one per country
Snapshot(t, d) == MaxByNegara(RowsOn(t, d))

\* a missing fraction
NaNFrac == [num |-> 0, den |-> 0]

\* kasus_kumulatif / total * 100 as a fraction; missing when the count is
\* missing or the division is 0 / 0 (the counts are not negative)
Persentase(kasus_kumulatif, total) ==
    IF kasus_kumulatif = NaN \/ total = 0 THEN NaNFrac
    ELSE [num |-> kasus_kumulatif * 100, den |-> total]

\* t["persentase"] = t["kasus_kumulatif"] / total * 100
WithPersentase(t, total) ==
    [i \in DOMAIN t |->
        [negara |-> t[i].negara, kasus_kumulatif |-> t[i].kasus_kumulatif,
         persentase |-> Persentase(t[i].kasus_kumulatif, total)]]

\* the numerators of the percentages that are not missing (they share the
\* denominator total)
PctNums(t) ==
    LET present == SelectSeq(t, LAMBDA r : r.persentase.den # 0)
    IN  [i \in DOMAIN present |-> present[i].persentase.num]

\* t["persentase"].sum() as a fraction: the missing ones are skipped
PersentaseSum(t, total) ==
    IF PctNums(t) = <<>> THEN [num |-> 0, den |-> 1]
    ELSE [num |-> SumSeq(PctNums(t)), den |-> total]

\* df_top: the top_n rows by cumulative count
DfTop(global_pie) == Head_n(SortByKumulatif(global_pie), top_n)

\* the remainder taken against one entry too few
DfOthersOffByOne(df_top, total) ==
    [kasus_kumulatif |-> total - SumSkipNa(Col_kumulatif(Head_n(df_top, top_n - 1))),
     persentase |->
        [num |-> 100 * PersentaseSum(Head_n(df_top, top_n - 1), total).den
                   - PersentaseSum(Head_n(df_top, top_n - 1), total).num,
         den |-> PersentaseSum(Head_n(df_top, top_n - 1), total).den]]

\* df_others: the remainder, by subtraction
DfOthers(df_top, total) ==
    [kasus_kumulatif |-> total - SumSkipNa(Col_kumulatif(df_top)),
     persentase |->
        [num |-> 100 * PersentaseSum(df_top, total).den - PersentaseSum(df_top, total).num,
         den |-> PersentaseSum(df_top, total).den]]

RECURSIVE RankSum(_, _)
RankSum(xs, i) == IF xs = <<>> THEN 0 ELSE i * Head(xs) + RankSum(Tail(xs), i + 1)

\* sum(sorted_pct) is 0 (a missing share makes the sum missing, not 0)
GiniZeroSum(df_top) ==
    /\ \A i \in DOMAIN df_top : df_top[i].persentase.den # 0
    /\ SumSeq(PctNums(df_top)) = 0

\* gini_coefficient = 2 * sum((i + 1) * sorted_pct[i]) / (n * cum_sum) - (n + 1) / n
\* as a fraction; missing when a share is missing
GiniCoefficient(df_top) ==
    IF \E i \in DOMAIN df_top : df_top[i].persentase.den = 0 THEN NaNFrac
    ELSE LET n == Len(df_top)
             asc == [i \in 1..n |-> PctNums(df_top)[n + 1 - i]]
         IN  [num |-> 2 * RankSum(asc, 1) - (n + 1) * SumSeq(asc),
              den |-> n * SumSeq(asc)]

\* the global contribution breakdown of the whole table
GlobalPie(t) ==
    LET snapshot == Snapshot(t, MaxSkipNa(Col_tanggal(t)))
        total == SumSkipNa(Col_kumulatif(snapshot))
        df_top == DfTop(WithPersentase(snapshot, total))
    IN  [df_global_pie |-> WithPersentase(snapshot, total),
         total_global_cases |-> total,
         df_top |-> df_top,
         df_others |-> DfOthers(df_top, total)]

\* the global contribution panel; the division by the global total is not
\* guarded, the division of the Gini coefficient raises ZeroDivisionError
GlobalContribution ==
    /\ pc = "global"
    /\ LET g == GlobalPie(df)
       IN  /\ zero_div' = zero_div
                  \cup (IF g.total_global_cases = 0 THEN {"total_global_cases"} ELSE {})
                  \cup (IF GiniZeroSum(g.df_top) THEN {"cum_sum"} ELSE {})
           /\ IF GiniZeroSum(g.df_top)
              THEN /\ pie' = <<g @@ [gini_coefficient |-> NaNFrac]>>
                   /\ Show("global", "shown")
                   /\ Abort("global")
              ELSE /\ pie' = <<g @@ [gini_coefficient |-> GiniCoefficient(g.df_top)]>>
                   /\ Show("global", "shown")
                   /\ Go("top10")
    /\ UNCHANGED <<file, cache, reads, df, negara_selected, date_range, df_filtered,
                   latest_date, kpi, df_map, trend, df_peak, top10, dist, vol>>

\* top10: the top 10 countries by their largest cumulative count
Top10Rows(t) == Head_n(SortByKumulatif(MaxByNegara(t)), 10)

\* the ranking panel; top10.iloc[9] raises IndexError with fewer than 10
\* countries, the division by the count of rank 10 is not guarded
Top10Section ==
    /\ pc = "top10"
    /\ Show("top10", "shown")
    /\ IF Len(Top10Rows(df)) < 10
       THEN /\ top10' = <<[rows |-> Top10Rows(df), ratio_1_to_10 |-> NaNFrac]>>
            /\ Abort("top10")
            /\ UNCHANGED zero_div
       ELSE /\ top10' = <<[rows |-> Top10Rows(df),
                           ratio_1_to_10 |-> [num |-> Top10Rows(df)[1].kasus_kumulatif,
                                              den |-> Top10Rows(df)[10].kasus_kumulatif]]>>
            /\ zero_div' = zero_div
                   \cup (IF Top10Rows(df)[10].kasus_kumulatif = 0 THEN {"rank_10"} ELSE {})
            /\ Go("dist_bar")
    /\ UNCHANGED <<file, cache, reads, df, negara_selected, date_range, df_filtered,
                   latest_date, kpi, df_map, trend, df_peak, pie, dist, vol>>

\* df_pie_filtered with its percentages, and the countries of the largest
\* and the smallest count when there are two rows or more
DistTable(t, d) ==
    LET snapshot == Snapshot(t, d)
        total == SumSkipNa(Col_kumulatif(snapshot))
        rows == WithPersentase(snapshot, total)
    IN  [total_filtered |-> total,
         rows |-> rows,
         max_country |-> IF Len(rows) > 1 THEN <<rows[IdxMax(Col_kumulatif(rows))]>> ELSE <<>>,
         min_country |-> IF Len(rows) > 1 THEN <<rows[IdxMin(Col_kumulatif(rows))]>> ELSE <<>>]

\* max_country / min_country is evaluated with a zero smallest count
RatioByZero(d) == d.min_country # <<>> /\ d.min_country[1].kasus_kumulatif = 0

\* a selected-country distribution panel (the bar chart, then the pie chart)
Distribution(p, next) ==
    /\ pc = p
    /\ IF df_filtered # <<>>
       THEN LET d == DistTable(df_filtered, latest_date)
            IN  IF d.total_filtered > 0
                THEN /\ dist' = <<d>>
                     /\ zero_div' = zero_div \cup (IF RatioByZero(d) THEN {p} ELSE {})
                     /\ Show(p, "shown")
                ELSE /\ dist' = <<[d EXCEPT !.rows = Snapshot(df_filtered, latest_date),
                                            !.max_country = <<>>, !.min_country = <<>>]>>
                     /\ Show(p, "placeholder")
                     /\ UNCHANGED zero_div
       ELSE /\ Show(p, "placeholder")
            /\ UNCHANGED <<dist, zero_div>>
    /\ Go(next)
    /\ UNCHANGED <<file, cache, reads, df, negara_selected, date_range, df_filtered,
                   latest_date, kpi, df_map, trend, df_peak, pie, top10, vol>>

DistBar == Distribution("dist_bar", "dist_pie")
DistPie == Distribution("dist_pie", "vol")

\* Series.std() squared, as a fraction: the sample variance (ddof = 1) of
\* the values that are not missing, missing with fewer than two of them
Variance(xs) ==
    LET v == NotNa(xs)
        n == Len(v)
    IN  IF n < 2 THEN NaNFrac
        ELSE [num |-> n * SumSeq([i \in DOMAIN v |-> v[i] * v[i]]) - SumSeq(v) * SumSeq(v),
              den |-> n * (n - 1)]

\* the coefficient of variation without the guard on the mean
CvSquaredUnguarded(std2, mean_val) ==
    IF std2.den = 0 \/ mean_val.num = 0 THEN NaNFrac
    ELSE [num |-> std2.num * mean_val.den * mean_val.den * 10000,
          den |-> std2.den * mean_val.num * mean_val.num]

\* cv = (std_dev / mean_val * 100) if mean_val > 0 else 0, squared, as a
\* fraction (cv is not negative); missing when std_dev is missing
CvSquared(std2, mean_val) ==
    IF MeanPositive(mean_val)
    THEN IF std2.den = 0 THEN NaNFrac
         ELSE [num |-> std2.num * mean_val.den * mean_val.den * 10000,
               den |-> std2.den * mean_val.num * mean_val.num]
    ELSE [num |-> 0, den |-> 1]

\* volatility_data: a row for each selected country with two records or more
VolatilityData(t, sel) ==
    LET order == SortedSeq(sel)
        kept == SelectSeq(order, LAMBDA negara : Len(RowsOf(t, negara)) > 1)
        row(negara) ==
            LET xs == Col_harian(RowsOf(t, negara))
            IN  [Negara |-> negara,
                 mean_val |-> Mean(xs),
                 std2 |-> Variance(xs),
                 cv2 |-> CvSquared(Variance(xs), Mean(xs)),
                 max_val |-> MaxSkipNa(xs),
                 min_val |-> MinSkipNa(xs)]
    IN  [i \in DOMAIN kept |-> row(kept[i])]

\* the volatility panel
Volatility ==
    /\ pc = "vol"
    /\ IF df_filtered # <<>> /\ Cardinality(negara_selected) > 0
       THEN /\ vol' = VolatilityData(df_filtered, negara_selected)
            /\ Show("vol", IF vol' # <<>> THEN "shown" ELSE "placeholder")
       ELSE /\ Show("vol", "placeholder")
            /\ UNCHANGED vol
    /\ Go("done")
    /\ UNCHANGED <<file, cache, reads, df, negara_selected, date_range, df_filtered,
                   latest_date, kpi, df_map, trend, df_peak, pie, top10, dist, zero_div>>

Next == Interact \/ LoadData \/ Sidebar \/ FilterData \/ KpiSection \/ MapPanel
        \/ TrendInsight \/ PeakAnalysis \/ GlobalContribution \/ Top10Section
        \/ DistBar \/ DistPie \/ Volatility

Spec == Init /\ [][Next]_vars

(***************************************************************************)
(* Where a run of the script stands                                        *)
(***************************************************************************)
Order == <<"idle", "load", "sidebar", "filter", "kpi", "map", "trend", "peak", "global",
           "top10", "dist_bar", "dist_pie", "vol", "done">>
Pos(section) == CHOOSE i \in DOMAIN Order : Order[i] = section

\* the section has run to its end in the current run
Passed(section) ==
    IF pc = "aborted" THEN Pos(raised) > Pos(section) ELSE Pos(pc) > Pos(section)
\* the section has run in the current run, to its end or to an exception
Reached(section) == Passed(section) \/ (pc = "aborted" /\ raised = section)
\* the current run is over
RunOver == pc \in {"done", "aborted"}

(***************************************************************************)
(* C1                                                                      *)
(***************************************************************************)
DependentPanels == {"kpi", "map", "trend", "peak", "dist_bar", "dist_pie", "vol"}

\* C1: a run whose filtered subset is empty ends without an exception and
\* every panel that depends on the subset shows its placeholder.
C1_EmptySubsetShowsPlaceholders ==
    (RunOver /\ Passed("filter") /\ df_filtered = <<>>)
        => /\ raised = ""
           /\ \A p \in DependentPanels : panel[p] = "placeholder"

(***************************************************************************)
(* C2                                                                      *)
(***************************************************************************)
InWindow(r) ==
    /\ r.negara \in negara_selected
    /\ date_range[1] <= r.tanggal
    /\ r.tanggal <= date_range[2]

\* C2: the filtered subset holds exactly the records of the table whose
\* country is selected and whose date d satisfies a <= d <= b, each as often
\* as the table holds it and in the table's order.
C2_FilterExact ==
    Passed("filter") =>
        /\ \A i \in DOMAIN df_filtered : InWindow(df_filtered[i])
        /\ \A r \in Range(df) : InWindow(r) => r \in Range(df_filtered)
        /\ Range(df_filtered) \subseteq Range(df)
        /\ Len(df_filtered) = Cardinality({i \in DOMAIN df : InWindow(df[i])})

\* a subset that keeps a record of the last day of the range and leaves out a
\* record of a selected country for its date and a record for its country
C2_Witness ==
    /\ Passed("filter")
    /\ \E i \in DOMAIN df_filtered : df_filtered[i].tanggal = date_range[2]
    /\ \E i \in DOMAIN df : df[i].negara \in negara_selected /\ ~InWindow(df[i])
    /\ \E i \in DOMAIN df : df[i].negara \notin negara_selected
                            /\ df[i].tanggal = date_range[1]

(***************************************************************************)
(* C3                                                                      *)
(***************************************************************************)
\* the countries with a record on the latest date of the whole table
GlobalCountries == Range(Col_negara(RowsOn(df, max_date)))
\* the largest cumulative count of a country on that date, 0 when missing
GlobalCount(n) ==
    LET m == MaxSkipNa(Col_kumulatif(RowsOf(RowsOn(df, max_date), n)))
    IN  IF m = NaN THEN 0 ELSE m

\* the sum of those counts over the countries S
RECURSIVE SumGlobalCount(_)
SumGlobalCount(S) ==
    IF S = {} THEN 0
    ELSE LET x == CHOOSE y \in S : TRUE IN GlobalCount(x) + SumGlobalCount(S \ {x})

\* C3: in the global breakdown the Others count is the global total minus
\* the top-10 counts (the counts of the countries outside the top 10), the
\* Others percentage is 100 minus the top-10 percentages, and the percentages
\* of all entries sum to 100 (sums as the library takes them: a missing
\* entry is skipped).
C3_OthersByRemainder ==
    pie # <<>> =>
        LET g == pie[1]
            top == Range(Col_negara(g.df_top))
            nums == PctNums(g.df_top)
        IN  /\ g.total_global_cases = SumGlobalCount(GlobalCountries)
            /\ Len(g.df_top) = Min2(top_n, Cardinality(GlobalCountries))
            /\ g.df_others.kasus_kumulatif
                 = g.total_global_cases - SumGlobalCount(top)
            /\ g.df_others.kasus_kumulatif = SumGlobalCount(GlobalCountries \ top)
            /\ g.df_others.persentase.den > 0
            /\ IF nums = <<>>
               THEN g.df_others.persentase.num = 100 * g.df_others.persentase.den
               ELSE /\ g.df_others.persentase.den = g.total_global_cases
                    /\ g.df_others.persentase.num + SumSeq(nums)
                         = 100 * g.total_global_cases

\* a breakdown of more than 10 countries whose Others entry is not empty
C3_Witness ==
    /\ pie # <<>>
    /\ Len(pie[1].df_top) = top_n
    /\ pie[1].df_others.kasus_kumulatif > 0
    /\ pie[1].df_others.persentase.num > 0

(***************************************************************************)
(* C4                                                                      *)
(***************************************************************************)
\* the largest daily count among the rows t, NaN when there is none
MaxDaily(t) == MaxSkipNa(Col_harian(t))

\* C4: with a non-empty filtered subset the headline peak is a record of the
\* subset with the largest daily count of the subset, and the peak table has
\* exactly one row per country of the subset, with the country's largest
\* daily count and a date on which it occurred.
C4_PeakPerCountry ==
    /\ (Reached("trend") /\ df_filtered # <<>>) =>
          /\ trend # <<>>
          /\ \E i \in DOMAIN df_filtered :
                /\ df_filtered[i].negara = trend[1].peak.negara_peak
                /\ df_filtered[i].tanggal = trend[1].peak.tanggal_peak
                /\ df_filtered[i].kasus_harian = trend[1].peak.nilai_peak
          /\ trend[1].peak.nilai_peak = MaxDaily(df_filtered)
    /\ (Reached("peak") /\ df_filtered # <<>>) =>
          /\ Len(df_peak) = Cardinality(Range(Col_negara(df_filtered)))
          /\ \A n \in Range(Col_negara(df_filtered)) :
                \E i \in DOMAIN df_peak :
                   /\ df_peak[i].negara = n
                   /\ df_peak[i].kasus_harian = MaxDaily(RowsOf(df_filtered, n))
                   /\ \E j \in DOMAIN df_filtered :
                         /\ df_filtered[j].negara = n
                         /\ df_filtered[j].tanggal = df_peak[i].tanggal
                         /\ df_filtered[j].kasus_harian = df_peak[i].kasus_harian

(***************************************************************************)
(* C5                                                                      *)
(***************************************************************************)
\* the daily counts of a country in the filter window
Window(n) == Col_harian(RowsOf(df_filtered, n))

\* the fraction is std / mean * 100 squared, for the window of country n
IsStdOverMean(cv2, n) ==
    IF Variance(Window(n)).den = 0 THEN cv2.den = 0
    ELSE /\ cv2.den # 0
         /\ cv2.num * Variance(Window(n)).den * Mean(Window(n)).num * Mean(Window(n)).num
              = cv2.den * Variance(Window(n)).num * Mean(Window(n)).den
                        * Mean(Window(n)).den * 10000

IsZero(cv2) == cv2.den # 0 /\ cv2.num = 0

\* C5 as stated: the coefficient of variation of every row of the volatility
\* table is std / mean x 100 when the mean is not 0, and 0 when it is 0
\* (stated for the windows without a missing daily count, where it fails already).
C5_CvWheneverMeanNotZero ==
    \A i \in DOMAIN vol :
        (\A j \in DOMAIN Window(vol[i].Negara) : Window(vol[i].Negara)[j] # NaN) =>
        IF Mean(Window(vol[i].Negara)).num # 0
        THEN IsStdOverMean(vol[i].cv2, vol[i].Negara)
        ELSE IsZero(vol[i].cv2)

\* C5 as amended: std / mean x 100 when the mean is greater than 0, and 0
\* when the mean is 0 or less.
C5_CvWheneverMeanPositive ==
    \A i \in DOMAIN vol :
        IF Mean(Window(vol[i].Negara)).num > 0
        THEN IsStdOverMean(vol[i].cv2, vol[i].Negara)
        ELSE IsZero(vol[i].cv2)

\* a row of a country whose daily counts differ and have the mean 0
C5_Witness ==
    \E i \in DOMAIN vol :
        /\ Mean(Window(vol[i].Negara)).num = 0
        /\ Variance(Window(vol[i].Negara)).num > 0
        /\ IsZero(vol[i].cv2)

(***************************************************************************)
(* C6, C7                                                                  *)
(***************************************************************************)
\* the entries of trend_analysis
TrendEntries == IF trend = <<>> THEN <<>> ELSE trend[1].trend_analysis
\* the labels the trend classification gives country n
LabelsOf(n) ==
    {TrendEntries[i].trend : i \in {j \in DOMAIN TrendEntries : TrendEntries[j].negara = n}}

\* the sum and the number of the daily counts xs[i], i in I, that are not missing
RECURSIVE SumAt(_, _)
SumAt(xs, I) ==
    IF I = {} THEN 0
    ELSE LET i == CHOOSE j \in I : TRUE
         IN  (IF xs[i] = NaN THEN 0 ELSE xs[i]) + SumAt(xs, I \ {i})
CountAt(xs, I) == Cardinality({i \in I : xs[i] # NaN})

\* the positions of the latest week and of the week compared with it, in a
\* window of k >= 7 records
LatestIdx(k) == (k - 6)..k
PrevIdx(k) == IF k >= 14 THEN (k - 13)..(k - 7) ELSE 1..7

\* the change c of country n, with a previous-week mean above 0, is above
\* 20 / below -20 (c is no number when the latest week has no daily count)
ChangeAbove20(n) ==
    LET xs == Window(n)
        k == Len(xs)
    IN  /\ CountAt(xs, LatestIdx(k)) > 0
        /\ (SumAt(xs, LatestIdx(k)) * CountAt(xs, PrevIdx(k))
              - SumAt(xs, PrevIdx(k)) * CountAt(xs, LatestIdx(k))) * 100
             > 20 * SumAt(xs, PrevIdx(k)) * CountAt(xs, LatestIdx(k))
ChangeBelowMinus20(n) ==
    LET xs == Window(n)
        k == Len(xs)
    IN  /\ CountAt(xs, LatestIdx(k)) > 0
        /\ (SumAt(xs, LatestIdx(k)) * CountAt(xs, PrevIdx(k))
              - SumAt(xs, PrevIdx(k)) * CountAt(xs, LatestIdx(k))) * 100
             < -20 * SumAt(xs, PrevIdx(k)) * CountAt(xs, LatestIdx(k))

\* the label of every classified country follows the thresholds
LabelsFollowThresholds ==
    \A i \in DOMAIN TrendEntries :
        LET n == TrendEntries[i].negara
        IN  /\ TrendEntries[i].trend = "meningkat" <=> ChangeAbove20(n)
            /\ TrendEntries[i].trend = "menurun" <=> ChangeBelowMinus20(n)
            /\ TrendEntries[i].trend = "stabil"
                  <=> (~ChangeAbove20(n) /\ ~ChangeBelowMinus20(n))

\* the window of country n is a 14-day series: v on the first 7 days, w on the last 7
TwoWeeks(n, v, w) ==
    /\ Len(Window(n)) = 14
    /\ \A i \in 1..7 : Window(n)[i] = v
    /\ \A i \in 8..14 : Window(n)[i] = w

DailyValues == Range(Col_harian(df_filtered)) \ {NaN}

\* C6 as stated: the labels follow the thresholds (20 and -20 are stable), a
\* 14-day series whose last 7 days are double the prior 7 is labelled
\* increasing and a flat one is labelled stable (stated for the daily counts
\* that are not negative, where it fails already).
C6_LabelsAndExamples ==
    (Passed("trend") /\ df_filtered # <<>>) =>
        /\ LabelsFollowThresholds
        /\ \A n \in negara_selected : \A v \in DailyValues :
              v >= 0 => /\ TwoWeeks(n, v, 2 * v) => LabelsOf(n) = {"meningkat"}
                        /\ TwoWeeks(n, v, v) => LabelsOf(n) = {"stabil"}

\* C6 as amended: the same, for series of positive daily counts.
C6_LabelsAndPositiveExamples ==
    (Passed("trend") /\ df_filtered # <<>>) =>
        /\ LabelsFollowThresholds
        /\ \A n \in negara_selected : \A v \in DailyValues :
              v > 0 => /\ TwoWeeks(n, v, 2 * v) => LabelsOf(n) = {"meningkat"}
                       /\ TwoWeeks(n, v, v) => LabelsOf(n) = {"stabil"}

\* a country whose change is exactly 20 and is labelled stable
C6_Witness ==
    \E i \in DOMAIN TrendEntries :
        /\ TrendEntries[i].change_pct.den > 0
        /\ TrendEntries[i].change_pct.num = 20 * TrendEntries[i].change_pct.den
        /\ TrendEntries[i].trend = "stabil"

\* the countries of the trend classification
ClassifiedCountries == {TrendEntries[i].negara : i \in DOMAIN TrendEntries}

\* the daily counts of the window of country n are present and not negative
PlainWindow(n) == \A i \in DOMAIN Window(n) : Window(n)[i] # NaN /\ Window(n)[i] >= 0

\* C7 as stated: a selected country is in the trend classification if and
\* only if it has at least 7 records in the window (stated for the windows
\* whose daily counts are present and not negative, where it fails already).
C7_ClassifiedIffSevenRecords ==
    Passed("trend") =>
        /\ ClassifiedCountries \subseteq negara_selected
        /\ \A n \in negara_selected :
              PlainWindow(n) => (n \in ClassifiedCountries <=> Len(Window(n)) >= 7)

\* C7 as amended: if and only if it has at least 7 records in the window and
\* the mean of its previous week is greater than 0; it then has one entry.
C7_ClassifiedIffSevenRecordsAndPositive ==
    Passed("trend") =>
        /\ ClassifiedCountries \subseteq negara_selected
        /\ Len(TrendEntries) = Cardinality(ClassifiedCountries)
        /\ \A n \in negara_selected :
              n \in ClassifiedCountries
                 <=> /\ Len(Window(n)) >= 7
                     /\ df_filtered # <<>>
                     /\ SumAt(Window(n), PrevIdx(Len(Window(n)))) > 0

\* a classified country with exactly 7 records in the window
C7_Witness ==
    /\ Passed("trend")
    /\ \E n \in ClassifiedCountries : Len(Window(n)) = 7

(***************************************************************************)
(* C8                                                                      *)
(***************************************************************************)
\* C8: the file is read at most once, the script's table is always the table
\* of the memo, which is the table the first load produced, and no step
\* changes the memoized table.
C8_ReadOnceNeverModified ==
    /\ [](/\ reads <= 1
          /\ cache # <<>> => (reads = 1 /\ cache[1] = ReadCsv)
          /\ df # <<>> => (cache # <<>> /\ df = cache[1]))
    /\ [][cache # <<>> => (cache' = cache /\ reads' = reads)]_vars

\* a later run starts: the run before is over, the file has been read once
\* and the memo holds the table of that load
C8_Witness ==
    /\ pc = "load"
    /\ reads = 1
    /\ cache # <<>>
    /\ cache[1] = ReadCsv
    /\ \E i \in DOMAIN file : file[i].kasus_harian = Bad

(***************************************************************************)
(* C9                                                                      *)
(***************************************************************************)
\* rows is one row per country with a record on date d of table t, with the
\* largest cumulative count of the country's records on that date
OneRowPerCountry(rows, t, d) ==
    /\ Range(Col_negara(rows)) = Range(Col_negara(RowsOn(t, d)))
    /\ Len(rows) = Cardinality(Range(Col_negara(RowsOn(t, d))))
    /\ \A i \in DOMAIN rows :
          rows[i].kasus_kumulatif = MaxSkipNa(Col_kumulatif(RowsOf(RowsOn(t, d), rows[i].negara)))

\* C9: the snapshot of the map, of the global contribution panel and of the
\* selected-country distribution panels is one row per country with a record
\* on the latest date of its table, with the largest cumulative count.
C9_SnapshotOneRowPerCountry ==
    /\ Passed("map") => OneRowPerCountry(df_map, df_filtered, latest_date)
    /\ pie # <<>> => OneRowPerCountry(pie[1].df_global_pie, df, max_date)
    /\ dist # <<>> => OneRowPerCountry(dist[1].rows, df_filtered, latest_date)

(***************************************************************************)
(* C10                                                                     *)
(***************************************************************************)
\* C10: no division is evaluated with a zero denominator.
C10_NoZeroDenominator == zero_div = {}

(***************************************************************************)
(* C11                                                                     *)
(***************************************************************************)
\* the records 8 to 14 counted back from the most recent of k records
PrecedingIdx(k) == {i \in 1..k : k - 13 <= i /\ i <= k - 7}
\* the mean of the daily counts xs[i], i in I
MeanAt(xs, I) == [num |-> SumAt(xs, I), den |-> CountAt(xs, I)]
\* two fractions are the same number, or both are no number
SameFrac(a, b) ==
    IF a.den = 0 \/ b.den = 0 THEN a.den = b.den ELSE a.num * b.den = b.num * a.den

\* C11: for every selected country with at least 7 records in the window,
\* the trend compares the mean of its 7 most recent records with the mean of
\* the records 8 to 14 counted back from the most recent, so that no record
\* is in both means: the country is classified when that preceding mean is
\* above 0, and its change is the change between these two means.
C11_DisjointWeeks ==
    (Passed("trend") /\ df_filtered # <<>>) =>
        \A n \in negara_selected :
            LET xs == Window(n)
                k == Len(xs)
                latest == MeanAt(xs, LatestIdx(k))
                prev == MeanAt(xs, PrecedingIdx(k))
            IN  k >= 7 =>
                  /\ n \in ClassifiedCountries <=> MeanPositive(prev)
                  /\ \A i \in DOMAIN TrendEntries :
                        TrendEntries[i].negara = n
                           => SameFrac(TrendEntries[i].change_pct, ChangePct(latest, prev))

\* the same for the countries with at least 14 records in the window
C11_DisjointWeeksFromFourteen ==
    (Passed("trend") /\ df_filtered # <<>>) =>
        \A n \in negara_selected :
            LET xs == Window(n)
                k == Len(xs)
                latest == MeanAt(xs, LatestIdx(k))
                prev == MeanAt(xs, PrecedingIdx(k))
            IN  k >= 14 =>
                  /\ n \in ClassifiedCountries <=> MeanPositive(prev)
                  /\ \A i \in DOMAIN TrendEntries :
                        TrendEntries[i].negara = n
                           => SameFrac(TrendEntries[i].change_pct, ChangePct(latest, prev))

(***************************************************************************)
(* C12                                                                     *)
(***************************************************************************)
\* the rows of the ranking
RankingRows == IF top10 = <<>> THEN <<>> ELSE top10[1].rows

\* C12: for a table with at least one country the ranking holds the
\* min(10, number of countries) countries of the highest largest cumulative
\* count, in descending order, and the narrative of the ranking panel is
\* computed without an exception, also with fewer than 10 countries.
C12_RankingWithoutException ==
    (Reached("top10") /\ df # <<>>) =>
        /\ raised # "top10"
        /\ Len(RankingRows) = Min2(10, Cardinality(negara_list))
        /\ \A i \in DOMAIN RankingRows :
              RankingRows[i].kasus_kumulatif
                 = MaxSkipNa(Col_kumulatif(RowsOf(df, RankingRows[i].negara)))
        /\ \A i, j \in DOMAIN RankingRows :
              i < j => ~Before(RankingRows[j].kasus_kumulatif, RankingRows[i].kasus_kumulatif)
        /\ \A n \in negara_list \ {RankingRows[i].negara : i \in DOMAIN RankingRows} :
              \A i \in DOMAIN RankingRows :
                 ~Before(MaxSkipNa(Col_kumulatif(RowsOf(df, n))), RankingRows[i].kasus_kumulatif)

\* the same for the ranking alone, without the narrative
C12_RankingRows ==
    (Reached("top10") /\ df # <<>>) =>
        /\ Len(RankingRows) = Min2(10, Cardinality(negara_list))
        /\ \A i \in DOMAIN RankingRows :
              RankingRows[i].kasus_kumulatif
                 = MaxSkipNa(Col_kumulatif(RowsOf(df, RankingRows[i].negara)))
        /\ \A i, j \in DOMAIN RankingRows :
              i < j => ~Before(RankingRows[j].kasus_kumulatif, RankingRows[i].kasus_kumulatif)
        /\ \A n \in negara_list \ {RankingRows[i].negara : i \in DOMAIN RankingRows} :
              \A i \in DOMAIN RankingRows :
                 ~Before(MaxSkipNa(Col_kumulatif(RowsOf(df, n))), RankingRows[i].kasus_kumulatif)
====
